---- MODULE Spec2Model ----
(***************************************************************************)
(* A model of the JSON-RPC client of cita-tool, src/cita-tool/src/client.rs: *)
(* the request-id counter, the optional chain id and private key, the two   *)
(* dispatch modes (one parameter set to many URLs, many parameter sets to   *)
(* one URL), the join of the pending requests on the event loop, the        *)
(* decoding of the bodies, chain-id resolution and transaction building.    *)
(*                                                                          *)
(* A call that reaches the network is a sequence of steps: the call itself  *)
(* builds every request and hands the join to the event loop; each later    *)
(* step is one pending request resolving (with a body or with a transport   *)
(* error); the step that resolves the join also runs the rest of the call.  *)
(*                                                                          *)
(* Option<T> is a sequence of length at most one: <<>> is None, <<x>> is    *)
(* Some(x).  A panic (unwrap / expect on a missing value, an arithmetic     *)
(* overflow in a checked build) is the result status "panic".               *)
(***************************************************************************)
EXTENDS Integers, Sequences, FiniteSets, TLC

VARIABLES
    id,           \* Client.id: u64, the request-id counter
    chain_id,     \* Client.chain_id: Option<u32>
    private_key,  \* Client.private_key: Option<PrivKey>
    call,         \* the current (or last) call: its name, inputs and pre-state
    reqs,         \* the requests the current (or last) call created, in creation order
    arrivals,     \* the indices of reqs in the order in which they resolved
    result        \* what the current (or last) call gave back to its caller

vars == <<id, chain_id, private_key, call, reqs, arrivals, result>>

----------------------------------------------------------------------------
(* Bounds of the model *)

\* The counter is a u64; the model counts modulo IdModulus, a scaled stand-in
\* for 2^64, so that the wrap is reached after a few requests.
IdModulus == 4
\* Block heights are u64; the model's heights live below HeightModulus, a
\* scaled stand-in for 2^64 that is larger than the look-ahead window.
HeightModulus == 200
\* The chain id is a u32 while a JSON integer is a u64; ChainModulus is the
\* scaled stand-in for 2^32.
ChainModulus == 2
\* The largest number of requests in one batch.
MaxBatch == 3

(* Program constants *)
ValidWindow == 88
Quota == 1000000

----------------------------------------------------------------------------
(* Input domains *)

URLS == {"http://a", "http://b"}
CITA_BLOCK_BUMBER == "cita_blockNumber"
CITA_GET_META_DATA == "cita_getMetaData"
\* A parameter set, as far as the client reads it, is its "method" entry.
PARAMS == {CITA_BLOCK_BUMBER, "net_peerCount"}
KEYS == {"k1"}
NONCES == {"n1", "n2"}
ADDRESSES == {"", "0xabc"}
\* Hex payloads: valid ones (the empty string, lower and upper case), one of
\* odd length and one with a character that is no hex digit.
CODES == { <<>>, <<"d", "e">>, <<"D", "E", "0", "1">>, <<"d">>, <<"z", "0">> }
\* Heights: small ones, the last one whose deadline fits, the first one whose
\* deadline does not, and the largest.
HEIGHTS == {0, 100, HeightModulus - ValidWindow - 1, HeightModulus - ValidWindow,
            HeightModulus - 1}
\* JSON integers a node may send as chainId: all u32 values and two beyond.
JSON_INTS == 0 .. (ChainModulus + 1)

SeqsUpTo(S, n) == UNION { [1 .. k -> S] : k \in 0 .. n }

None == <<>>
Some(x) == <<x>>

----------------------------------------------------------------------------
(* Response bodies.  A body is what one HTTP response carried: `req` is the  *)
(* index of the request it answers, `kind` what the bytes are.               *)

BODY_KINDS == {"garbage", "error", "single", "map_nokey", "map_str", "map_int"}

Body(i, k, v) == [req |-> i, kind |-> k, v |-> v]

\* The bodies the i-th request of a batch may be answered with.  Only
\* get_chain_id looks inside a response, so only a metadata query is answered
\* with every kind of body; the other methods are answered with a body that
\* does not parse or with one that does.
BodiesFor(i, method) ==
    IF method = CITA_GET_META_DATA
    THEN { Body(i, k, 0) : k \in BODY_KINDS \ {"map_int"} }
             \cup { Body(i, "map_int", v) : v \in JSON_INTS }
    ELSE { Body(i, k, 0) : k \in {"garbage", "single"} }

\* serde_json::from_slice::<JsonRpcResponse>: None when the bytes are no
\* JSON-RPC response, else the response: its result (absent, a single value
\* or a map) and, of a map, the chainId entry.
from_slice(b) ==
    IF b.kind = "garbage" THEN None
    ELSE Some([req |-> b.req,
               result |-> CASE b.kind = "error" -> "None"
                            [] b.kind = "single" -> "Single"
                            [] OTHER -> "Map",
               chainId |-> CASE b.kind = "map_str" -> "String"
                             [] b.kind = "map_int" -> "Int"
                             [] OTHER -> "absent",
               int |-> IF b.kind = "map_int" THEN b.v ELSE 0])


----------------------------------------------------------------------------
(* The request-id counter *)

\* Mutant: a saturating increment, which stops at the largest value.
Mut_overflowing_add(i) == IF i = IdModulus - 1 THEN i ELSE i + 1

\* self.id.overflowing_add(1).0
overflowing_add(i) == (i + 1) % IdModulus

\* The counter after k increments from c.
RECURSIVE IdAfter(_, _)
IdAfter(c, k) == IF k = 0 THEN c ELSE overflowing_add(IdAfter(c, k - 1))

\* One pending request: a POST of `params` with "id" inserted, to `url`.
Request(url, method, n) ==
    [url |-> url, method |-> method, id |-> n, state |-> "Pending", body |-> None]

\* Mutant: the increment moved inside the loop over the URLs.
Mut_make_requests_with_all_url(c, urls, params) ==
    [id |-> (c + Len(urls)) % IdModulus,
     reqs |-> [i \in 1 .. Len(urls) |->
                  [url |-> urls[i], method |-> params, id |-> (c + i) % IdModulus,
                   state |-> "Pending", body |-> <<>>]]]

\* make_requests_with_all_url: the counter is advanced once, the id is
\* inserted into the one parameter set, and that parameter set is the body of
\* the request to every URL.
make_requests_with_all_url(c, urls, params) ==
    LET n == overflowing_add(c)
    IN  [id |-> n,
         reqs |-> [i \in 1 .. Len(urls) |-> Request(urls[i], params, n)]]

\* make_requests_with_params_list: the counter is advanced once for every
\* parameter set of the iterator, and each request goes to the one URL.
make_requests_with_params_list(c, url, params) ==
    [id |-> IdAfter(c, Len(params)),
     reqs |-> [k \in 1 .. Len(params) |-> Request(url, params[k], IdAfter(c, k))]]

----------------------------------------------------------------------------
(* The join of the pending requests (futures::future::join_all, driven by   *)
(* Core::run in Client::run).  The join keeps one slot per future, in the   *)
(* order of the vector it was given.  It resolves with the vector of all    *)
(* the items once every future has resolved, and it resolves with the first *)
(* error it sees at once, dropping every other future.                      *)

\* Mutant: the items are collected in the order in which they arrived.
Mut_JoinAllItems(rs, arr) == [k \in 1 .. Len(arr) |-> rs[arr[k]].body[1]]

\* Mutant: the join records the error and keeps waiting for the others.
Mut_JoinAllFail(rs, i) == [rs EXCEPT ![i].state = "Failed"]

\* Mutant: unwrap_or_default() in place of unwrap(): an undecodable body
\* becomes the default response.
Mut_run(chunks) ==
    <<[i \in 1 .. Len(chunks) |->
         IF chunks[i].kind = "garbage"
         THEN [req |-> chunks[i].req, result |-> "None", chainId |-> "absent",
               int |-> 0]
         ELSE [req |-> chunks[i].req,
               result |-> IF chunks[i].kind = "error" THEN "None"
                          ELSE IF chunks[i].kind = "single" THEN "Single"
                          ELSE "Map",
               chainId |-> IF chunks[i].kind = "map_str" THEN "String"
                           ELSE IF chunks[i].kind = "map_int" THEN "Int"
                           ELSE "absent",
               int |-> IF chunks[i].kind = "map_int" THEN chunks[i].v ELSE 0]]>>

JoinAllReady(rs) == \A i \in 1 .. Len(rs) : rs[i].state = "Done"

JoinAllItems(rs, arr) == [i \in 1 .. Len(rs) |-> rs[i].body[1]]

JoinAllFail(rs, i) ==
    [k \in 1 .. Len(rs) |->
        IF k = i THEN [rs[k] EXCEPT !.state = "Failed"]
        ELSE IF rs[k].state = "Pending" THEN [rs[k] EXCEPT !.state = "Cancelled"]
        ELSE rs[k]]

\* Client::run after core.run(reqs).unwrap(): every chunk is decoded and
\* unwrapped; None stands for the panic of an unwrap on a decode error.
run(chunks) ==
    LET decoded == [i \in 1 .. Len(chunks) |-> from_slice(chunks[i])]
    IN  IF \E i \in 1 .. Len(chunks) : decoded[i] = None
        THEN None
        ELSE Some([i \in 1 .. Len(chunks) |-> decoded[i][1]])

----------------------------------------------------------------------------
(* Chain-id resolution *)

\* `chain_id as u32`: the low 32 bits of the u64 a JSON integer is parsed to.
as_u32(n) == n % ChainModulus

\* Mutant: the cached chain id is never looked at.
Mut_chain_id_is_some(c) == FALSE

\* Mutant: the fallback 0 is stored as the chain id.
Mut_get_chain_id_of(resp) ==
    IF resp.result = "Map" /\ resp.chainId = "absent"
    THEN [panic |-> TRUE, store |-> <<>>, value |-> 0]
    ELSE IF resp.result = "Map" /\ resp.chainId = "Int"
    THEN [panic |-> FALSE, store |-> <<resp.int % ChainModulus>>,
          value |-> resp.int % ChainModulus]
    ELSE [panic |-> FALSE, store |-> <<0>>, value |-> 0]

\* get_chain_id's test: is a chain id held?
chain_id_is_some(c) == c # None

\* get_chain_id once get_metadata(url) has returned `resp`: whether it panics
\* (value.remove("chainId").unwrap() on a map without the key), what it
\* stores in self.chain_id (None: nothing) and what it returns.
get_chain_id_of(resp) ==
    IF resp.result = "Map"
    THEN IF resp.chainId = "absent"
         THEN [panic |-> TRUE, store |-> None, value |-> 0]
         ELSE IF resp.chainId = "Int"
         THEN [panic |-> FALSE, store |-> Some(as_u32(resp.int)),
               value |-> as_u32(resp.int)]
         ELSE [panic |-> FALSE, store |-> None, value |-> 0]
    ELSE [panic |-> FALSE, store |-> None, value |-> 0]

----------------------------------------------------------------------------
(* Transaction building *)

HexDigits == {"0", "1", "d", "e", "D", "E"}

HexValue(ch) ==
    CASE ch = "0" -> 0
      [] ch = "1" -> 1
      [] ch \in {"d", "D"} -> 13
      [] ch \in {"e", "E"} -> 14
      [] OTHER -> 0

\* hex::decode: None for a string of odd length or with a character that is
\* no hex digit, else one byte per pair of digits.
decode(code) ==
    IF Len(code) % 2 # 0 \/ \E i \in 1 .. Len(code) : code[i] \notin HexDigits
    THEN None
    ELSE Some([k \in 1 .. (Len(code) \div 2) |->
                  16 * HexValue(code[2 * k - 1]) + HexValue(code[2 * k])])

\* Mutant: the window is added to nothing.
Mut_valid_until_block(current_height) == current_height % HeightModulus

\* Mutant: unwrap_or_default() in place of expect().
Mut_expect_chain_id(c) == IF c = <<>> THEN <<0>> ELSE c

\* current_height + 88 on u64: the sum when it fits.  When it does not, a
\* build with overflow checks panics and one without wraps.
valid_until_block(current_height) == (current_height + ValidWindow) % HeightModulus

add_overflows(current_height) == current_height + ValidWindow >= HeightModulus

\* self.chain_id.expect("Please set chain id"): None stands for the panic.
expect_chain_id(c) == c

\* generate_transaction: None for a panic, else the signed transaction.  The
\* steps run in the order of the code: the payload is decoded, the deadline
\* added, the chain id and then the private key unwrapped.
generate_transaction(c, key, code, address, current_height, nonce, checked) ==
    LET data == decode(code)
        cid == expect_chain_id(c)
    IN  IF data = None THEN [panic |-> "hex", tx |-> None]
        ELSE IF add_overflows(current_height) /\ checked
        THEN [panic |-> "overflow", tx |-> None]
        ELSE IF cid = None THEN [panic |-> "chain_id", tx |-> None]
        ELSE IF key = None THEN [panic |-> "private_key", tx |-> None]
        ELSE [panic |-> "",
              tx |-> Some([data |-> data[1],
                           to |-> address,
                           nonce |-> nonce,
                           valid_until_block |-> valid_until_block(current_height),
                           quota |-> Quota,
                           chain_id |-> cid[1],
                           signer |-> key[1]])]

----------------------------------------------------------------------------
(* Calls and results *)

Call(op, urls, params, code, address, height, arg, key) ==
    [op |-> op, urls |-> urls, params |-> params, code |-> code,
     address |-> address, height |-> height, arg |-> arg, key |-> key,
     id0 |-> id, chain0 |-> chain_id, key0 |-> private_key]

Running == [status |-> "running", why |-> "", list |-> <<>>, value |-> None, tx |-> None]
Returned == [Running EXCEPT !.status = "returned"]
ReturnedList(l) == [Returned EXCEPT !.list = l]
ReturnedValue(v) == [Returned EXCEPT !.value = Some(v)]
ReturnedTx(t) == [Returned EXCEPT !.tx = t]
Panic(why) == [Running EXCEPT !.status = "panic", !.why = why]

NoCall ==
    [op |-> "none", urls |-> <<>>, params |-> <<>>, code |-> <<>>,
     address |-> "", height |-> 0, arg |-> 0, key |-> None,
     id0 |-> 0, chain0 |-> None, key0 |-> None]
NoResult == [Running EXCEPT !.status = "idle"]

\* No call is in progress: the client is a &mut self (or owned) receiver, so
\* one call starts only when the one before it is over.
Idle == result.status = "idle"

\* What a call does once the join of its requests `rs` has resolved with
\* every item: Client::run decodes them, then send_request and
\* send_request_with_multiple_params return the list, and get_chain_id (through
\* get_metadata, which pops the last response) goes on with it.
Finish(op, rs, arr) ==
    LET responses == run(JoinAllItems(rs, arr))
    IN  IF responses = None
        THEN result' = Panic("decode") /\ UNCHANGED chain_id
        ELSE IF op = "get_chain_id"
        THEN LET r == get_chain_id_of(responses[1][Len(responses[1])])
             IN  IF r.panic
                 THEN result' = Panic("chainId") /\ UNCHANGED chain_id
                 ELSE /\ result' = ReturnedValue(r.value)
                      /\ chain_id' = IF r.store = None THEN chain_id ELSE r.store
        ELSE result' = ReturnedList(responses[1]) /\ UNCHANGED chain_id

\* A call hands its requests to the event loop: it is blocked while any of
\* them is pending, and is over at once when there is none.
Dispatch(op, made) ==
    /\ id' = made.id
    /\ reqs' = made.reqs
    /\ arrivals' = <<>>
    /\ IF JoinAllReady(made.reqs)
       THEN Finish(op, made.reqs, <<>>)
       ELSE result' = Running /\ UNCHANGED chain_id

----------------------------------------------------------------------------
(* Actions *)

Init ==
    /\ id = 0
    /\ chain_id = None
    /\ private_key = None
    /\ call = NoCall
    /\ reqs = <<>>
    /\ arrivals = <<>>
    /\ result = NoResult

set_chain_id(c) ==
    /\ Idle
    /\ call' = Call("set_chain_id", <<>>, <<>>, <<>>, "", 0, c, None)
    /\ chain_id' = Some(c)
    /\ reqs' = <<>> /\ arrivals' = <<>>
    /\ result' = Returned
    /\ UNCHANGED <<id, private_key>>

set_private_key(k) ==
    /\ Idle
    /\ call' = Call("set_private_key", <<>>, <<>>, <<>>, "", 0, 0, Some(k))
    /\ private_key' = Some(k)
    /\ reqs' = <<>> /\ arrivals' = <<>>
    /\ result' = Returned
    /\ UNCHANGED <<id, chain_id>>

send_request(urls, params) ==
    /\ Idle
    /\ call' = Call("send_request", urls, <<params>>, <<>>, "", 0, 0, None)
    /\ Dispatch("send_request", make_requests_with_all_url(id, urls, params))
    /\ UNCHANGED private_key

send_request_with_multiple_params(url, params) ==
    /\ Idle
    /\ call' = Call("send_request_with_multiple_params", <<url>>, params,
                    <<>>, "", 0, 0, None)
    /\ Dispatch("send_request_with_multiple_params",
                make_requests_with_params_list(id, url, params))
    /\ UNCHANGED private_key

get_chain_id(url) ==
    /\ Idle
    /\ call' = Call("get_chain_id", <<url>>, <<>>, <<>>, "", 0, 0, None)
    /\ IF chain_id_is_some(chain_id)
       THEN /\ result' = ReturnedValue(chain_id[1])
            /\ reqs' = <<>> /\ arrivals' = <<>>
            /\ UNCHANGED <<id, chain_id>>
       ELSE Dispatch("get_chain_id",
                     make_requests_with_all_url(id, <<url>>, CITA_GET_META_DATA))
    /\ UNCHANGED private_key

GenerateTransaction(code, address, current_height, nonce, checked) ==
    /\ Idle
    /\ call' = Call("generate_transaction", <<>>, <<>>, code, address,
                    current_height, 0, None)
    /\ LET r == generate_transaction(chain_id, private_key, code, address,
                                     current_height, nonce, checked)
       IN  result' = IF r.tx = None THEN Panic(r.panic) ELSE ReturnedTx(r.tx)
    /\ reqs' = <<>> /\ arrivals' = <<>>
    /\ UNCHANGED <<id, chain_id, private_key>>

\* The i-th pending request resolves with the body b.
Respond(i, b) ==
    /\ result.status = "running"
    /\ reqs[i].state = "Pending"
    /\ LET rs == [reqs EXCEPT ![i].state = "Done", ![i].body = Some(b)]
           arr == Append(arrivals, i)
       IN  /\ reqs' = rs
           /\ arrivals' = arr
           /\ IF JoinAllReady(rs)
              THEN Finish(call.op, rs, arr)
              ELSE UNCHANGED <<result, chain_id>>
    /\ UNCHANGED <<id, private_key, call>>

\* The i-th pending request ends in a transport error: the join resolves with
\* it and core.run(reqs).unwrap() panics.
Fail(i) ==
    /\ result.status = "running"
    /\ reqs[i].state = "Pending"
    /\ reqs' = JoinAllFail(reqs, i)
    /\ arrivals' = Append(arrivals, i)
    /\ result' = Panic("transport")
    /\ UNCHANGED <<id, chain_id, private_key, call>>

\* The call is over: its result (or its panic) is with the caller, and the
\* requests and the join it owned are dropped.
Return ==
    /\ result.status \in {"returned", "panic"}
    /\ call' = NoCall
    /\ reqs' = <<>>
    /\ arrivals' = <<>>
    /\ result' = NoResult
    /\ UNCHANGED <<id, chain_id, private_key>>

Next ==
    \/ \E c \in 0 .. (ChainModulus - 1) : set_chain_id(c)
    \/ \E k \in KEYS : set_private_key(k)
    \/ \E urls \in SeqsUpTo(URLS, MaxBatch), p \in PARAMS : send_request(urls, p)
    \/ \E url \in URLS, ps \in SeqsUpTo(PARAMS, MaxBatch) :
          send_request_with_multiple_params(url, ps)
    \/ \E url \in URLS : get_chain_id(url)
    \/ \E code \in CODES, a \in ADDRESSES, h \in HEIGHTS, n \in NONCES,
          checked \in BOOLEAN : GenerateTransaction(code, a, h, n, checked)
    \/ \E i \in 1 .. Len(reqs) : \E b \in BodiesFor(i, reqs[i].method) : Respond(i, b)
    \/ \E i \in 1 .. Len(reqs) : Fail(i)
    \/ Return

Spec == Init /\ [][Next]_vars

----------------------------------------------------------------------------
(* Properties *)

Over == result.status \in {"returned", "panic"}
IsBroadcast == call.op = "send_request"
IsMulti == call.op = "send_request_with_multiple_params"
IsDispatch == IsBroadcast \/ IsMulti
\* The number of requests the call was asked for.
BatchSize == IF IsBroadcast THEN Len(call.urls) ELSE Len(call.params)
Completed(r) == r.state \in {"Done", "Failed"}
Parses(r) == r.state = "Done" /\ r.body[1].kind # "garbage"

\* C1, as stated: in broadcast mode the request to the i-th URL carries id
\* (c + i) mod 2^64 and the counter is (c + N) mod 2^64 after the call.
C1_IdPerUrl ==
    IsBroadcast =>
        /\ Len(reqs) = Len(call.urls)
        /\ \A i \in 1 .. Len(reqs) :
              /\ reqs[i].url = call.urls[i]
              /\ reqs[i].id = (call.id0 + i) % IdModulus
        /\ id = (call.id0 + Len(call.urls)) % IdModulus

\* C1, amended: in broadcast mode the counter is advanced once per call; each
\* of the N requests carries the same id (c + 1) mod 2^64 and the same
\* parameter set, the i-th request goes to the i-th URL, and the counter is
\* (c + 1) mod 2^64 after the call, whatever N is.
C1_OneIdPerBroadcast ==
    IsBroadcast =>
        /\ Len(reqs) = Len(call.urls)
        /\ \A i \in 1 .. Len(reqs) :
              /\ reqs[i].url = call.urls[i]
              /\ reqs[i].method = call.params[1]
              /\ reqs[i].id = (call.id0 + 1) % IdModulus
        /\ id = (call.id0 + 1) % IdModulus

\* A broadcast to at least two URLs whose increment wrapped the counter.
C1_Witness ==
    IsBroadcast /\ Len(reqs) >= 2 /\ call.id0 = IdModulus - 1 /\ id = 0

\* C2: in multi-params mode exactly n requests are created, all to the one
\* URL, the k-th parameter set is sent with id (c + k) mod 2^64, and the
\* counter is (c + n) mod 2^64 afterwards: the increment wraps, it never fails.
C2_IdPerParams ==
    IsMulti =>
        /\ Len(reqs) = Len(call.params)
        /\ \A k \in 1 .. Len(reqs) :
              /\ reqs[k].url = call.urls[1]
              /\ reqs[k].method = call.params[k]
              /\ reqs[k].id = (call.id0 + k) % IdModulus
        /\ id = (call.id0 + Len(call.params)) % IdModulus
        /\ result.why = "" \/ result.why \in {"transport", "decode"}

\* A batch of at least three parameter sets in which the counter wrapped
\* between two requests.
C2_Witness ==
    /\ IsMulti /\ Len(reqs) >= 3
    /\ \E k \in 1 .. (Len(reqs) - 1) :
          reqs[k].id = IdModulus - 1 /\ reqs[k + 1].id = 0

\* C3: when every request of a dispatch succeeded, the list returned has
\* length N and its i-th element is the response to the i-th request,
\* whatever the order in which the responses arrived.
C3_InputOrder ==
    (IsDispatch /\ result.status = "returned") =>
        /\ Len(result.list) = BatchSize
        /\ \A i \in 1 .. Len(result.list) : result.list[i].req = i

\* A returned list of at least two responses, the first of which to arrive
\* was not the first request's.
C3_Witness ==
    /\ IsDispatch /\ result.status = "returned"
    /\ Len(result.list) >= 2
    /\ arrivals[1] # 1

\* C4: a dispatch is all-or-nothing: a list (of all N responses) is returned
\* exactly when every request succeeded and every body decoded; a transport
\* failure or an undecodable body of any one request ends the call in a
\* panic, and nothing is returned.
C4_AllOrNothing ==
    (IsDispatch /\ Over) =>
        IF \A i \in 1 .. Len(reqs) : Parses(reqs[i])
        THEN result.status = "returned" /\ Len(result.list) = BatchSize
        ELSE result.status = "panic" /\ result.list = <<>>

\* A dispatch that panicked on an undecodable body although another request
\* of the batch had been answered with a good one.
C4_Witness ==
    /\ IsDispatch /\ result.status = "panic" /\ result.why = "decode"
    /\ \E i \in 1 .. Len(reqs) : Parses(reqs[i])

ValidHex(code) ==
    Len(code) % 2 = 0 /\ \A i \in 1 .. Len(code) : code[i] \in HexDigits
IsGenerate == call.op = "generate_transaction"

TxBuilt(deadline) ==
    /\ result.status = "returned"
    /\ result.tx # None
    /\ result.tx[1].valid_until_block = deadline
    /\ result.tx[1].quota = 1000000
    /\ result.tx[1].chain_id = call.chain0[1]
    /\ result.tx[1].to = call.address
    /\ result.tx[1].data = decode(call.code)[1]

\* C5, as stated: with a chain id and a key, for every valid hex payload,
\* recipient and height of the u64 range, the transaction built has
\* valid_until_block = current_height + 88, quota 1000000, the client's chain
\* id, the recipient unchanged and the decoded payload.
C5_EveryHeight ==
    (IsGenerate /\ call.chain0 # None /\ call.key0 # None /\ ValidHex(call.code))
        => TxBuilt(call.height + 88)

\* C5, amended: the same for every height whose deadline fits a u64
\* (current_height <= 2^64 - 89).
C5_HeightsThatFit ==
    (/\ IsGenerate /\ call.chain0 # None /\ call.key0 # None
     /\ ValidHex(call.code)
     /\ call.height + 88 <= HeightModulus - 1)
        => TxBuilt(call.height + 88)

\* The example of the specification: chain id 1, recipient "", height 100.
C5_Witness ==
    /\ IsGenerate /\ result.status = "returned"
    /\ call.chain0 = Some(1) /\ call.address = "" /\ call.height = 100
    /\ call.code = <<"d", "e">>
    /\ result.tx[1].valid_until_block = 188
    /\ result.tx[1].data = <<222>>

\* C6: without a chain id, and likewise without a private key,
\* generate_transaction panics and returns nothing; the counter and the
\* stored chain id are unchanged and no request is issued.
C6_MissingPrecondition ==
    (IsGenerate /\ (call.chain0 = None \/ call.key0 = None)) =>
        /\ result.status = "panic"
        /\ result.tx = None
        /\ id = call.id0
        /\ chain_id = call.chain0
        /\ private_key = call.key0
        /\ reqs = <<>>

\* A well-formed call on a client with a key and no chain id.
C6_Witness ==
    /\ IsGenerate /\ call.chain0 = None /\ call.key0 # None
    /\ ValidHex(call.code) /\ call.height = 100
    /\ result.status = "panic" /\ result.why = "chain_id"

IsGetChainId == call.op = "get_chain_id"
Answered == Len(reqs) = 1 /\ reqs[1].state = "Done"

CachedSemantics ==
    (IsGetChainId /\ call.chain0 # None) =>
        /\ result.status = "returned"
        /\ result.value = call.chain0
        /\ reqs = <<>>
        /\ id = call.id0
        /\ chain_id = call.chain0

OneMetadataRequest ==
    (IsGetChainId /\ call.chain0 = None) =>
        /\ Len(reqs) = 1
        /\ reqs[1].url = call.urls[1]
        /\ reqs[1].method = CITA_GET_META_DATA

\* C7, as stated: with a chain id held, get_chain_id returns it, issues no
\* request and changes nothing; with none held it issues exactly one metadata
\* request and, when the response carries an integer chainId, stores that
\* value and returns it.
C7_StoresChainId ==
    /\ CachedSemantics
    /\ OneMetadataRequest
    /\ (IsGetChainId /\ call.chain0 = None /\ Answered
            /\ reqs[1].body[1].kind = "map_int") =>
          /\ result.status = "returned"
          /\ chain_id = Some(reqs[1].body[1].v)
          /\ result.value = Some(reqs[1].body[1].v)

\* C7, amended: ... stores the low 32 bits of that value (chainId mod 2^32,
\* the chainId itself when it fits a u32) and returns what it stored.
C7_StoresLow32Bits ==
    /\ CachedSemantics
    /\ OneMetadataRequest
    /\ (IsGetChainId /\ call.chain0 = None /\ Answered
            /\ reqs[1].body[1].kind = "map_int") =>
          /\ result.status = "returned"
          /\ chain_id = Some(reqs[1].body[1].v % ChainModulus)
          /\ result.value = chain_id

\* get_chain_id on a client that holds a chain id.
C7_Witness ==
    /\ IsGetChainId /\ call.chain0 = Some(1)
    /\ result.status = "returned" /\ result.value = Some(1)

\* C8: with no chain id held, a metadata response without a result, with a
\* result that is no map, with a map without chainId or with a chainId that
\* is no integer makes get_chain_id return 0 without failing.
C8_MalformedYieldsZero ==
    (/\ IsGetChainId /\ call.chain0 = None /\ Answered
     /\ reqs[1].body[1].kind \in {"error", "single", "map_nokey", "map_str"})
        => result.status = "returned" /\ result.value = Some(0)

\* C9, as stated: a dispatch has issued all N requests before it waits, and
\* is over only when every request of the batch has completed.
C9_OverOnlyWhenAllCompleted ==
    IsDispatch =>
        /\ Len(reqs) = BatchSize
        /\ Over => \A i \in 1 .. Len(reqs) : Completed(reqs[i])

\* C9, amended: a dispatch has issued all N requests before it waits; it
\* returns a list, or panics on an undecodable body, only when every request
\* has completed; a transport failure of one request ends the call at once,
\* and the requests still in flight then are cancelled, not awaited.
C9_FailFast ==
    IsDispatch =>
        /\ Len(reqs) = BatchSize
        /\ result.status = "running" =>
              \A i \in 1 .. Len(reqs) : reqs[i].state \in {"Pending", "Done"}
        /\ (result.status = "returned" \/ result.why = "decode") =>
              \A i \in 1 .. Len(reqs) : reqs[i].state = "Done"
        /\ result.why = "transport" =>
              /\ Cardinality({i \in 1 .. Len(reqs) : reqs[i].state = "Failed"}) = 1
              /\ \A i \in 1 .. Len(reqs) :
                    reqs[i].state \in {"Failed", "Done", "Cancelled"}

\* A dispatch that ended on a transport failure with a request cancelled.
C9_Witness ==
    /\ IsDispatch /\ result.why = "transport"
    /\ \E i \in 1 .. Len(reqs) : reqs[i].state = "Cancelled"

FallbackKept ==
    (/\ IsGetChainId /\ call.chain0 = None /\ result.status = "returned"
     /\ Answered /\ reqs[1].body[1].kind # "map_int")
        => result.value = Some(0) /\ chain_id = None

AfterUnset ==
    chain_id = None =>
        /\ call'.op = "generate_transaction" => result'.status = "panic"
        /\ (call'.op = "get_chain_id" /\ call.op # "get_chain_id") => Len(reqs') = 1

\* C10, as stated: a get_chain_id that fell back to 0 leaves the chain id
\* unset, so that a following generate_transaction fails and a following
\* get_chain_id queries again; the stored chain id is only ever set to a
\* value passed to set_chain_id or to the integer chainId of a received
\* metadata response.
C10_StoredIsReceived ==
    [][ /\ FallbackKept'
        /\ AfterUnset
        /\ chain_id' # chain_id =>
              \/ call'.op = "set_chain_id" /\ chain_id' = Some(call'.arg)
              \/ /\ call'.op = "get_chain_id" /\ Len(reqs') = 1
                 /\ reqs'[1].state = "Done"
                 /\ reqs'[1].body[1].kind = "map_int"
                 /\ chain_id' = Some(reqs'[1].body[1].v) ]_vars

\* C10, amended: ... or to the low 32 bits (chainId mod 2^32) of the integer
\* chainId of a received metadata response.
C10_StoredIsReceivedLow32 ==
    [][ /\ FallbackKept'
        /\ AfterUnset
        /\ chain_id' # chain_id =>
              \/ call'.op = "set_chain_id" /\ chain_id' = Some(call'.arg)
              \/ /\ call'.op = "get_chain_id" /\ Len(reqs') = 1
                 /\ reqs'[1].state = "Done"
                 /\ reqs'[1].body[1].kind = "map_int"
                 /\ chain_id' = Some(reqs'[1].body[1].v % ChainModulus) ]_vars

\* A get_chain_id that returned the fallback 0 on a chainId that is a string.
C10_Witness ==
    /\ IsGetChainId /\ call.chain0 = None /\ Answered
    /\ reqs[1].body[1].kind = "map_str"
    /\ result.status = "returned" /\ result.value = Some(0)
    /\ chain_id = None

====
